---- MODULE Spec2Model ----
(***************************************************************************)
(* Model of parser.js (chitezh/edu-parser): the script reads two MongoDB   *)
(* collections (activities, then vocab), schedules one rate-staggered      *)
(* existence probe of the GCloud bucket per audio/word, and hands the      *)
(* filtered results of each collection to the CSV writer.                  *)
(*                                                                         *)
(* One action is one turn of the Node event loop (a cursor callback, a     *)
(* timer callback, a storage callback) together with the promise           *)
(* reactions (microtasks) that run before the next turn.  Time is in       *)
(* milliseconds.  setTimeout promises "no earlier than the delay": the     *)
(* model fires each timer at the earliest instant the delay allows.        *)
(***************************************************************************)
EXTENDS Integers, Sequences, FiniteSets, TLC

VARIABLES
  now,        \* wall clock, ms since the script started
  pc,         \* position of the promise chain of parser()
  source,     \* per collection: the documents the query selects
  cursor,     \* per collection: state of the mongojs cursor
  pos,        \* per collection: number of documents the cursor has yielded
  i,          \* per collection: the counter i of processVocab/processActivities
  result,     \* per collection: the array the cursor's map has accumulated
  promise,    \* per collection: sequence index -> promise made by checkGCloud
  agg,        \* per collection: state of the Promise.all of filterAndWrite
  csv,        \* per collection: the data arrays handed to writeToCSV, in order
  done,       \* per collection: state of the promise processX returned
  bucket,     \* names of the objects that exist under audio/<course>/
  faults,     \* transport errors the storage backend will still produce
  releaseLog, \* probes issued to the backend so far, in order of issue
  overtaken,  \* per collection: a probe was answered before an earlier one
  closes      \* number of calls of mongodb.close()

vars == <<now, pc, source, cursor, pos, i, result, promise, agg, csv, done,
          bucket, faults, releaseLog, overtaken, closes>>

----------------------------------------------------------------------------
(* Bounds of the model *)

MaxDocs == 1        \* documents yielded by the activities cursor
MaxContent == 3     \* example-sentence entries per activities document
MaxVocab == 2       \* documents yielded by the vocab cursor
MaxRecords == 3     \* entries read from both collections in one run
MaxFaults == 1      \* transport errors of the backend in one run
MaxLatency == 50    \* ms within which the backend answers a probe

(* Program constants *)

RATE_LIMIT == 20

Collections == {"activities", "vocab"}

----------------------------------------------------------------------------
(* Strings are sequences of characters. *)

MidDot == "U+30FB"
Ext == <<".", "m", "p", "3">>

Cat == <<"c", "a", "t">>
Odd == <<MidDot, "?", "/", "?", "/">>
Words == {Cat, Odd}

\* a document field that is missing or empty is the empty (falsy) string
Empty == <<>>

Undefined == 0

Min(S) == CHOOSE x \in S : \A y \in S : x <= y

SeqsUpTo(S, lo, hi) == UNION {[1..n -> S] : n \in lo..hi}

RECURSIVE flatten(_)
flatten(arr) ==
  IF arr = <<>> THEN <<>> ELSE Head(arr) \o flatten(Tail(arr))

IndexOf(s, ch) ==
  IF \E k \in 1..Len(s) : s[k] = ch
  THEN Min({k \in 1..Len(s) : s[k] = ch})
  ELSE 0

\* String.prototype.replace with a string pattern: the first occurrence only
replace(s, ch, rep) ==
  LET k == IndexOf(s, ch)
  IN IF k = 0 THEN s
     ELSE SubSeq(s, 1, k - 1) \o rep \o SubSeq(s, k + 1, Len(s))

getFileName(file) ==
  replace(replace(replace(file, MidDot, <<>>), "?", <<"_">>), "/", <<"_">>)
    \o Ext

Delay_Inverted(n) == (n * RATE_LIMIT) \div 1000 + 5

\* the delay handed to setTimeout
Delay(n) == (n * 1000) \div RATE_LIMIT + 5

\* checkGCloud(llBucket, word)(i), called at time t
checkGCloud(word, n, t) ==
  [word |-> word, fileName |-> getFileName(word), state |-> "scheduled",
   found |-> FALSE, submitted |-> t, due |-> t + Delay(n), released |-> 0,
   probe |-> "none"]

----------------------------------------------------------------------------
(* Promise.all and filterAndWrite *)

\* the flat list of what the map callbacks returned: sequence indexes of
\* promises, Undefined for a document without identifier
Entries(c, res) == IF c = "activities" THEN flatten(res) ELSE res

Ids(c, res) ==
  {Entries(c, res)[k] : k \in DOMAIN Entries(c, res)} \ {Undefined}

\* waiting for the last promise of the array only
PromiseAll_LastOnly(c, res, prom) ==
  IF Ids(c, res) = {} THEN "fulfilled"
  ELSE LET last == CHOOSE n \in Ids(c, res) : \A m \in Ids(c, res) : m <= n
       IN IF prom[last].state = "rejected" THEN "rejected"
          ELSE IF prom[last].state = "fulfilled" THEN "fulfilled"
          ELSE "pending"

\* state of Promise.all over the array res, given the promises prom
PromiseAll(c, res, prom) ==
  IF \E n \in Ids(c, res) : prom[n].state = "rejected" THEN "rejected"
  ELSE IF \A n \in Ids(c, res) : prom[n].state = "fulfilled" THEN "fulfilled"
  ELSE "pending"

\* the values Promise.all resolves with, flattened
Resolved(c, res, prom) ==
  [k \in DOMAIN Entries(c, res) |->
     LET n == Entries(c, res)[k]
     IN IF n = Undefined
        THEN [id |-> Undefined, word |-> Empty, found |-> FALSE]
        ELSE [id |-> n, word |-> prom[n].word, found |-> prom[n].found]]

\* _.where(newArr, {found: true}); undefined elements never match
FoundFilter(r) == r.id # Undefined /\ r.found = TRUE

where(arr) == SelectSeq(arr, FoundFilter)

\* the reactions of the Promise.all of filterAndWrite: st is its state before
AggAfter(c, st, res, prom) ==
  IF st = "pending" THEN PromiseAll(c, res, prom) ELSE st

\* writing whenever every promise made so far is fulfilled, also before the
\* cursor has ended
CsvAfter_Eager(c, st, res, prom, old) ==
  IF st \in {"none", "pending"} /\ PromiseAll(c, res, prom) = "fulfilled"
  THEN Append(old, where(Resolved(c, res, prom)))
  ELSE old

\* the then of filterAndWrite: writeToCSV is called when Promise.all fulfils
CsvAfter(c, st, res, prom, old) ==
  IF st = "pending" /\ PromiseAll(c, res, prom) = "fulfilled"
  THEN Append(old, where(Resolved(c, res, prom)))
  ELSE old

----------------------------------------------------------------------------
\* $match and $filter leave documents with at least one example sentence
Docs == SeqsUpTo(Words \cup {Empty}, 1, MaxContent)

Sources == [activities : SeqsUpTo(Docs, 0, MaxDocs),
            vocab : SeqsUpTo(Words \cup {Empty}, 0, MaxVocab)]

Size(src) == Len(flatten(src.activities)) + Len(src.vocab)

\* the objects of the bucket under audio/<course>/
Stored == {getFileName(Cat)}

Init ==
  /\ now = 0
  /\ pc = "connect"
  /\ source \in {src \in Sources : Size(src) <= MaxRecords}
  /\ cursor = [c \in Collections |-> "idle"]
  /\ pos = [c \in Collections |-> 0]
  /\ i = [c \in Collections |-> 0]
  /\ result = [c \in Collections |-> <<>>]
  /\ promise = [c \in Collections |-> <<>>]
  /\ agg = [c \in Collections |-> "none"]
  /\ csv = [c \in Collections |-> <<>>]
  /\ done = [c \in Collections |-> "none"]
  /\ bucket = Stored
  /\ faults = MaxFaults
  /\ releaseLog = <<>>
  /\ overtaken = [c \in Collections |-> FALSE]
  /\ closes = 0

----------------------------------------------------------------------------
(* parser(): connectToDb(...).then(processActivities) *)

connectToDb ==
  /\ pc = "connect"
  /\ \E ok \in BOOLEAN :
       IF ok
       THEN /\ pc' = "activities"
            /\ done' = [done EXCEPT !.activities = "pending"]
            /\ cursor' = [cursor EXCEPT !.activities = "open"]
       ELSE /\ pc' = "failed"
            /\ done' = done
            /\ cursor' = cursor
  /\ UNCHANGED <<now, source, pos, i, result, promise, agg, csv, bucket,
                 faults, releaseLog, overtaken, closes>>

NoPromise == [state |-> "none"]

RECURSIVE MapContent_NoGuard(_, _, _)
MapContent_NoGuard(content, n, t) ==
  IF content = <<>> THEN [ids |-> <<>>, made |-> <<>>]
  ELSE LET audio == Head(content)
           rest == MapContent_NoGuard(Tail(content), n + 1, t)
       IN [ids |-> <<n + 1>> \o rest.ids,
           made |-> <<checkGCloud(audio, n + 1, t)>> \o rest.made]

\* the promises of one activities document: _.map over result.content, with
\* the counter at n before the first entry
RECURSIVE MapContent(_, _, _)
MapContent(content, n, t) ==
  IF content = <<>> THEN [ids |-> <<>>, made |-> <<>>]
  ELSE LET audio == Head(content)
           rest == MapContent(Tail(content), n + 1, t)
       IN IF audio # Empty
          THEN [ids |-> <<n + 1>> \o rest.ids,
                made |-> <<checkGCloud(audio, n + 1, t)>> \o rest.made]
          ELSE [ids |-> <<Undefined>> \o rest.ids,
                made |-> <<NoPromise>> \o rest.made]

\* the cursor yields one activities document to the map callback
processActivitiesMap ==
  /\ pc = "activities"
  /\ pos.activities < Len(source.activities)
  /\ LET doc == source.activities[pos.activities + 1]
         m == MapContent(doc, i.activities, now)
     IN /\ i' = [i EXCEPT !.activities = @ + Len(doc)]
        /\ promise' = [promise EXCEPT !.activities = @ \o m.made]
        /\ result' = [result EXCEPT !.activities = Append(@, m.ids)]
  /\ pos' = [pos EXCEPT !.activities = @ + 1]
  /\ UNCHANGED <<now, pc, source, cursor, agg, csv, done, bucket, faults,
                 releaseLog, overtaken, closes>>

\* a chain that does not return processVocab's promise: mongodb.close() is
\* called as soon as the vocab query has been started
processActivitiesEnd_CloseEarly ==
  /\ pc = "activities"
  /\ pos.activities = Len(source.activities)
  /\ agg' = [agg EXCEPT !.activities =
               AggAfter("activities", "pending", result.activities,
                        promise.activities)]
  /\ csv' = [csv EXCEPT !.activities =
               CsvAfter("activities", "pending", result.activities,
                        promise.activities, @)]
  /\ done' = [done EXCEPT !.activities = "resolved", !.vocab = "pending"]
  /\ cursor' = [cursor EXCEPT !.activities = "end", !.vocab = "open"]
  /\ pc' = "vocab"
  /\ closes' = closes + 1
  /\ UNCHANGED <<now, source, pos, i, result, promise, bucket, faults,
                 releaseLog, overtaken>>

\* the cursor is exhausted: filterAndWrite(result, 'activities'); res('done');
\* the chain goes on with processVocab
processActivitiesEnd ==
  /\ pc = "activities"
  /\ pos.activities = Len(source.activities)
  /\ agg' = [agg EXCEPT !.activities =
               AggAfter("activities", "pending", result.activities,
                        promise.activities)]
  /\ csv' = [csv EXCEPT !.activities =
               CsvAfter("activities", "pending", result.activities,
                        promise.activities, @)]
  /\ done' = [done EXCEPT !.activities = "resolved", !.vocab = "pending"]
  /\ cursor' = [cursor EXCEPT !.activities = "end", !.vocab = "open"]
  /\ pc' = "vocab"
  /\ UNCHANGED <<now, source, pos, i, result, promise, bucket, faults,
                 releaseLog, overtaken, closes>>

\* the cursor reports an error: rej(err); the chain's catch logs it
processActivitiesErr ==
  /\ pc = "activities"
  /\ done' = [done EXCEPT !.activities = "rejected"]
  /\ cursor' = [cursor EXCEPT !.activities = "error"]
  /\ pc' = "failed"
  /\ UNCHANGED <<now, source, pos, i, result, promise, agg, csv, bucket,
                 faults, releaseLog, overtaken, closes>>

\* i++ moved inside the if: a document without word takes no index
processVocabMap_CountIdentified ==
  /\ pc = "vocab"
  /\ pos.vocab < Len(source.vocab)
  /\ LET word == source.vocab[pos.vocab + 1]
         n == i.vocab + 1
     IN IF word # Empty
        THEN /\ i' = [i EXCEPT !.vocab = n]
             /\ promise' = [promise EXCEPT !.vocab =
                              Append(@, checkGCloud(word, n, now))]
             /\ result' = [result EXCEPT !.vocab = Append(@, Len(promise.vocab) + 1)]
        ELSE /\ i' = i
             /\ promise' = [promise EXCEPT !.vocab = Append(@, NoPromise)]
             /\ result' = [result EXCEPT !.vocab = Append(@, Undefined)]
  /\ pos' = [pos EXCEPT !.vocab = @ + 1]
  /\ UNCHANGED <<now, pc, source, cursor, agg, csv, done, bucket, faults,
                 releaseLog, overtaken, closes>>

\* the cursor yields one vocab document to the map callback
processVocabMap ==
  /\ pc = "vocab"
  /\ pos.vocab < Len(source.vocab)
  /\ LET word == source.vocab[pos.vocab + 1]
         n == i.vocab + 1
     IN /\ i' = [i EXCEPT !.vocab = n]
        /\ IF word # Empty
           THEN /\ promise' = [promise EXCEPT !.vocab =
                                 Append(@, checkGCloud(word, n, now))]
                /\ result' = [result EXCEPT !.vocab = Append(@, n)]
           ELSE /\ promise' = [promise EXCEPT !.vocab = Append(@, NoPromise)]
                /\ result' = [result EXCEPT !.vocab = Append(@, Undefined)]
  /\ pos' = [pos EXCEPT !.vocab = @ + 1]
  /\ UNCHANGED <<now, pc, source, cursor, agg, csv, done, bucket, faults,
                 releaseLog, overtaken, closes>>

\* the cursor is exhausted: filterAndWrite(result, 'vocab'); res('done');
\* the chain goes on with mongodb.close()
processVocabEnd ==
  /\ pc = "vocab"
  /\ pos.vocab = Len(source.vocab)
  /\ agg' = [agg EXCEPT !.vocab =
               AggAfter("vocab", "pending", result.vocab, promise.vocab)]
  /\ csv' = [csv EXCEPT !.vocab =
               CsvAfter("vocab", "pending", result.vocab, promise.vocab, @)]
  /\ done' = [done EXCEPT !.vocab = "resolved"]
  /\ cursor' = [cursor EXCEPT !.vocab = "end"]
  /\ pc' = "closed"
  /\ closes' = closes + 1
  /\ UNCHANGED <<now, source, pos, i, result, promise, bucket, faults,
                 releaseLog, overtaken>>

\* a callback without the else: rej(err), then filterAndWrite and res all
\* the same (res after rej has no effect)
processVocabErr_FallThrough ==
  /\ pc = "vocab"
  /\ done' = [done EXCEPT !.vocab = "rejected"]
  /\ cursor' = [cursor EXCEPT !.vocab = "error"]
  /\ agg' = [agg EXCEPT !.vocab =
               AggAfter("vocab", "pending", result.vocab, promise.vocab)]
  /\ csv' = [csv EXCEPT !.vocab =
               CsvAfter("vocab", "pending", result.vocab, promise.vocab, @)]
  /\ pc' = "failed"
  /\ UNCHANGED <<now, source, pos, i, result, promise, bucket, faults,
                 releaseLog, overtaken, closes>>

\* the cursor reports an error: rej(err); the chain's catch logs it
processVocabErr ==
  /\ pc = "vocab"
  /\ done' = [done EXCEPT !.vocab = "rejected"]
  /\ cursor' = [cursor EXCEPT !.vocab = "error"]
  /\ pc' = "failed"
  /\ UNCHANGED <<now, source, pos, i, result, promise, agg, csv, bucket,
                 faults, releaseLog, overtaken, closes>>

----------------------------------------------------------------------------
(* The timer and the storage callback of checkGCloud *)

ChecksOf(c) == {n \in DOMAIN promise[c] : promise[c][n].state # "none"}

Checks == UNION {{<<c, n>> : n \in ChecksOf(c)} : c \in Collections}

Scheduled == {p \in Checks : promise[p[1]][p[2]].state = "scheduled"}
Probing == {p \in Checks : promise[p[1]][p[2]].state = "probing"}

\* the check p was submitted (its timer was set) before the check q
SubmittedBefore(p, q) ==
  \/ p[1] = "activities" /\ q[1] = "vocab"
  \/ p[1] = q[1] /\ p[2] < q[2]

\* the timer of a check expires: firstDirFile.exists(...) is issued; timers
\* that are due together run in the order in which they were set
timeout ==
  \E p \in Scheduled :
    LET c == p[1]
        n == p[2]
    IN /\ promise[c][n].due <= now
       /\ \A q \in Scheduled :
            promise[q[1]][q[2]].due <= now => ~SubmittedBefore(q, p)
       /\ promise' = [promise EXCEPT ![c][n].state = "probing",
                                     ![c][n].released = now]
       /\ releaseLog' = Append(releaseLog, [cat |-> c, id |-> n, t |-> now])
       /\ UNCHANGED <<now, pc, source, cursor, pos, i, result, agg, csv, done,
                      bucket, faults, overtaken, closes>>

\* a callback that returns on err without settling the promise
existsCallback_ReturnOnErr(q, err, res) ==
  IF err THEN [q EXCEPT !.state = "pending"]
  ELSE IF ~res THEN [q EXCEPT !.state = "fulfilled", !.found = FALSE]
  ELSE [q EXCEPT !.state = "fulfilled", !.found = TRUE]

\* a callback with the test on res inverted
existsCallback_Inverted(q, err, res) ==
  IF err THEN [q EXCEPT !.state = "rejected"]
  ELSE IF res THEN [q EXCEPT !.state = "fulfilled", !.found = FALSE]
  ELSE [q EXCEPT !.state = "fulfilled", !.found = TRUE]

\* a callback that arms the timer again on err
existsCallback_Retry(q, err, res) ==
  IF err THEN [q EXCEPT !.state = "scheduled"]
  ELSE IF ~res THEN [q EXCEPT !.state = "fulfilled", !.found = FALSE]
  ELSE [q EXCEPT !.state = "fulfilled", !.found = TRUE]

\* a callback that only warns on err and tests res === false
existsCallback_StrictFalse(q, err, res) ==
  IF ~err /\ ~res THEN [q EXCEPT !.state = "fulfilled", !.found = FALSE]
  ELSE [q EXCEPT !.state = "fulfilled", !.found = TRUE]

\* the body of the callback given to exists(), on the promise q: reject(err)
\* settles the promise, the resolve after it has no effect
existsCallback(q, err, res) ==
  IF err THEN [q EXCEPT !.state = "rejected"]
  ELSE IF ~res THEN [q EXCEPT !.state = "fulfilled", !.found = FALSE]
  ELSE [q EXCEPT !.state = "fulfilled", !.found = TRUE]

\* the backend answers a probe: an error, or whether the object exists
exists ==
  \E p \in Probing : \E err \in BOOLEAN :
    LET c == p[1]
        n == p[2]
        res == ~err /\ promise[c][n].fileName \in bucket
        answer == IF err THEN "error" ELSE IF res THEN "present" ELSE "absent"
        prom == [promise[c] EXCEPT
                   ![n] = existsCallback([@ EXCEPT !.probe = answer], err, res)]
    IN /\ err => faults > 0
       /\ faults' = IF err THEN faults - 1 ELSE faults
       /\ promise' = [promise EXCEPT ![c] = prom]
       /\ agg' = [agg EXCEPT ![c] = AggAfter(c, @, result[c], prom)]
       /\ csv' = [csv EXCEPT ![c] = CsvAfter(c, agg[c], result[c], prom, @)]
       /\ overtaken' = [overtaken EXCEPT ![c] =
                          @ \/ \E m \in 1..(n - 1) : <<c, m>> \in Probing]
       /\ UNCHANGED <<now, pc, source, cursor, pos, i, result, done, bucket,
                      releaseLog, closes>>

\* time passes until the next timer is due
tick ==
  /\ Scheduled # {}
  /\ \A p \in Scheduled : promise[p[1]][p[2]].due > now
  /\ LET t == Min({promise[p[1]][p[2]].due : p \in Scheduled})
     IN /\ \A p \in Probing : promise[p[1]][p[2]].released + MaxLatency >= t
        /\ now' = t
  /\ UNCHANGED <<pc, source, cursor, pos, i, result, promise, agg, csv, done,
                 bucket, faults, releaseLog, overtaken, closes>>

Next ==
  \/ connectToDb
  \/ processActivitiesMap
  \/ processActivitiesEnd
  \/ processActivitiesErr
  \/ processVocabMap
  \/ processVocabEnd
  \/ processVocabErr
  \/ timeout
  \/ exists
  \/ tick

Spec == Init /\ [][Next]_vars

\* runs in which each cursor yields at most one document: every check of a
\* collection is submitted in the same turn
InitLive ==
  /\ Init
  /\ Len(source.activities) <= 1
  /\ Len(source.vocab) <= 1

\* the event loop runs a timer that is due and lets time pass; the backend
\* answers every probe
SpecLive ==
  /\ InitLive /\ [][Next]_vars
  /\ WF_vars(timeout) /\ WF_vars(exists) /\ WF_vars(tick)

----------------------------------------------------------------------------
(* A run over a large collection: one activities document with RATE_LIMIT  *)
(* example sentences, then one vocab word.                                 *)

InitBurst ==
  /\ now = 0
  /\ pc = "connect"
  /\ source = [activities |-> <<[k \in 1..RATE_LIMIT |-> Cat]>>,
               vocab |-> <<Cat>>]
  /\ cursor = [c \in Collections |-> "idle"]
  /\ pos = [c \in Collections |-> 0]
  /\ i = [c \in Collections |-> 0]
  /\ result = [c \in Collections |-> <<>>]
  /\ promise = [c \in Collections |-> <<>>]
  /\ agg = [c \in Collections |-> "none"]
  /\ csv = [c \in Collections |-> <<>>]
  /\ done = [c \in Collections |-> "none"]
  /\ bucket = Stored
  /\ faults = 1
  /\ releaseLog = <<>>
  /\ overtaken = [c \in Collections |-> FALSE]
  /\ closes = 0

SpecBurst == InitBurst /\ [][Next]_vars

----------------------------------------------------------------------------
(* Properties *)

\* the entries the cursor of c has yielded so far, flattened
Read(c) == Entries(c, SubSeq(source[c], 1, pos[c]))

Answered(c) == \A n \in ChecksOf(c) : promise[c][n].probe # "none"
Settled(c) ==
  \A n \in ChecksOf(c) : promise[c][n].state \in {"fulfilled", "rejected"}

RowIds(rows) == {rows[k].id : k \in DOMAIN rows}

Missing(c) ==
  {n \in ChecksOf(c) :
     promise[c][n].state = "fulfilled" /\ ~promise[c][n].found}

\* the run is over: the chain has ended and no timer or probe is outstanding
RunOver == pc \in {"failed", "closed"} /\ Scheduled = {} /\ Probing = {}

\* C1: what is handed to the CSV writer for a collection is exactly the
\* records whose check resolved with found = false
C1_MissingWritten ==
  \A c \in Collections : \A k \in DOMAIN csv[c] :
    RowIds(csv[c][k]) = Missing(c)

\* C2: once the cursor of a collection has ended without error and every
\* probe of the collection has been answered, error or not, the CSV of the
\* collection has been written exactly once
C2_AlwaysWritten ==
  \A c \in Collections :
    (cursor[c] = "end" /\ Answered(c)) => Len(csv[c]) = 1

\* C3: a record whose probe was answered with an error is in no data array
\* handed to the CSV writer
C3_ErrorNeverListed ==
  \A c \in Collections : \A n \in ChecksOf(c) :
    promise[c][n].probe = "error" =>
      \A k \in DOMAIN csv[c] : n \notin RowIds(csv[c][k])

C3_Witness ==
  \E c \in Collections : \E n, m \in ChecksOf(c) :
    /\ promise[c][n].probe = "error"
    /\ promise[c][m].probe = "present"
    /\ cursor[c] = "end"
    /\ Answered(c)

\* C4 as stated: when the stream has been read to its end and every probe
\* has been answered, there are as many results (values or errors) as
\* records read
C4_ResultPerRecord ==
  \A c \in Collections :
    (cursor[c] = "end" /\ Answered(c)) =>
      Cardinality({n \in ChecksOf(c) :
                     promise[c][n].state \in {"fulfilled", "rejected"}})
        = Len(Read(c))

\* C4 amended: the map returns one entry per record read, in order; a record
\* with an identifier has exactly one check of its own, a record without
\* one has an undefined entry and no check; and once every probe has been
\* answered there are as many results (values or errors) as records with an
\* identifier
C4_ResultPerIdentifier ==
  \A c \in Collections :
    LET recs == Read(c)
        ents == Entries(c, result[c])
    IN /\ Len(ents) = Len(recs)
       /\ Len(promise[c]) = Len(recs)
       /\ \A k \in DOMAIN recs :
            IF recs[k] = Empty
            THEN ents[k] = Undefined /\ promise[c][k].state = "none"
            ELSE /\ ents[k] = k
                 /\ promise[c][k].state # "none"
                 /\ promise[c][k].word = recs[k]
       /\ Answered(c) =>
            Cardinality({n \in ChecksOf(c) :
                           promise[c][n].state \in {"fulfilled", "rejected"}})
              = Cardinality({k \in DOMAIN recs : recs[k] # Empty})

C4_Witness ==
  \E c \in Collections :
    /\ cursor[c] = "end"
    /\ Answered(c)
    /\ \E k \in DOMAIN Read(c) : Read(c)[k] = Empty
    /\ \E n \in ChecksOf(c) : promise[c][n].probe = "error"
    /\ \E n \in ChecksOf(c) : promise[c][n].probe = "absent"

\* C5: the promise of processActivities / processVocab is resolved only
\* when every check of the collection has settled
C5_ResolvedAfterResults ==
  \A c \in Collections : done[c] = "resolved" => Settled(c)

\* the number of probes of collection c released before the a-th release
Rank(c, a) == Cardinality({b \in 1..(a - 1) : releaseLog[b].cat = c})

\* C6: the k-th release (from 0) of a collection's probes is no earlier than
\* the submission of its check plus k * (1000 / RATE_LIMIT) ms
C6_NoEarlyRelease ==
  \A a \in DOMAIN releaseLog :
    LET r == releaseLog[a]
    IN r.t >= promise[r.cat][r.id].submitted
                + Rank(r.cat, a) * (1000 \div RATE_LIMIT)

C6_Witness ==
  \E a, b \in DOMAIN releaseLog :
    /\ a < b
    /\ releaseLog[a].cat = releaseLog[b].cat
    /\ promise[releaseLog[a].cat][releaseLog[a].id].submitted
         = promise[releaseLog[b].cat][releaseLog[b].id].submitted

\* C7: over the whole run, a window of one second never holds more than
\* RATE_LIMIT releases: the release RATE_LIMIT places after another one is
\* at least 1000 ms later
C7_RateWindow ==
  \A a, b \in DOMAIN releaseLog :
    b = a + RATE_LIMIT => releaseLog[b].t - releaseLog[a].t >= 1000

\* C8: when the cursor of a collection has reported an error, the promise
\* of the collection is rejected, filterAndWrite has not been called for it
\* and nothing is handed to the CSV writer for it
C8_SourceErrorAborts ==
  \A c \in Collections :
    cursor[c] = "error" =>
      /\ done[c] = "rejected"
      /\ agg[c] = "none"
      /\ csv[c] = <<>>

C8_Witness ==
  \E c \in Collections :
    /\ cursor[c] = "error"
    /\ ChecksOf(c) # {}
    /\ \A n \in ChecksOf(c) : promise[c][n].state = "fulfilled"

\* C9: when the run is over and activities failed at its source, while the
\* vocab source reported no error and no vocab probe failed, the vocab CSV
\* has been written
C9_VocabAfterFailure ==
  ( /\ RunOver
    /\ cursor.activities = "error"
    /\ cursor.vocab # "error"
    /\ \A n \in ChecksOf("vocab") : promise.vocab[n].probe # "error" )
  => Len(csv.vocab) = 1

\* C10: the file name of every check is not empty, ends in .mp3 and holds
\* no '?' and no '/'
C10_Sanitized ==
  \A p \in Checks :
    LET f == promise[p[1]][p[2]].fileName
    IN /\ Len(f) > 0
       /\ SubSeq(f, Len(f) - Len(Ext) + 1, Len(f)) = Ext
       /\ \A k \in DOMAIN f : f[k] \notin {"?", "/"}

InFlight == Scheduled \cup Probing

\* the code names no K; a bound that does not depend on the stream size is
\* in particular below the size of the longest stream
K == MaxRecords - 1

\* C11: at any time at most K checks are in flight, scheduled or awaiting
\* the backend
C11_BoundedInFlight == Cardinality(InFlight) <= K

IsReleased(p) == promise[p[1]][p[2]].state # "scheduled"

\* C12: over the whole run, when a check has been released every check
\* submitted before it has been released too, and no later
C12_Fifo ==
  \A p, q \in Checks :
    (SubmittedBefore(p, q) /\ IsReleased(q)) =>
      /\ IsReleased(p)
      /\ promise[p[1]][p[2]].released <= promise[q[1]][q[2]].released

AllSettled ==
  \A p \in Checks :
    promise[p[1]][p[2]].state \in {"fulfilled", "rejected"}

\* C13: every check that is submitted is eventually released and settles:
\* checks are never unsettled again and finitely many are submitted, so
\* from some point on every submitted check has settled
C13_NoStarvation == <>[]AllSettled

C13_Witness ==
  /\ pc = "closed"
  /\ Cardinality(Checks) >= 2
  /\ AllSettled
  /\ \E p \in Checks : promise[p[1]][p[2]].probe = "error"

\* C14: a settled check is rejected exactly when the backend answered with
\* an error, and otherwise fulfilled with found = (its path is in the bucket)
C14_Deterministic ==
  \A p \in Checks :
    LET q == promise[p[1]][p[2]]
    IN /\ q.probe = "error" => q.state = "rejected"
       /\ q.probe \in {"present", "absent"} =>
            /\ q.state = "fulfilled"
            /\ q.found = (getFileName(q.word) \in bucket)
       /\ q.state \in {"fulfilled", "rejected"} => q.probe # "none"

C14_Witness ==
  \E p, q, r \in Checks :
    /\ promise[p[1]][p[2]].probe = "present"
    /\ promise[q[1]][q[2]].probe = "absent"
    /\ promise[r[1]][r[2]].probe = "error"

\* the rows that the stream and the bucket alone determine
ExpectedRows(c) ==
  LET recs == Entries(c, source[c])
  IN {[id |-> k, word |-> recs[k], found |-> TRUE] :
        k \in {j \in DOMAIN recs :
                 recs[j] # Empty /\ getFileName(recs[j]) \in bucket}}

RowSet(rows) == {rows[k] : k \in DOMAIN rows}

\* C15: the set of rows handed to the CSV writer for a collection depends
\* on the record stream and the bucket only, not on the order in which the
\* probes were answered
C15_OrderIndependent ==
  \A c \in Collections : \A k \in DOMAIN csv[c] :
    RowSet(csv[c][k]) = ExpectedRows(c)

C15_Witness ==
  \E c \in Collections :
    /\ overtaken[c]
    /\ csv[c] # <<>>
    /\ csv[c][1] # <<>>

Releases(p) ==
  {a \in DOMAIN releaseLog :
     releaseLog[a].cat = p[1] /\ releaseLog[a].id = p[2]}

\* C16: a check causes no probe while its timer runs and exactly one from
\* then on, whatever the probe answers
C16_NoRetry ==
  \A p \in Checks :
    Cardinality(Releases(p)) = IF IsReleased(p) THEN 1 ELSE 0

C16_Witness ==
  /\ RunOver
  /\ \E p, q \in Checks :
       /\ promise[p[1]][p[2]].probe = "error"
       /\ promise[q[1]][q[2]].probe = "absent"

\* C17: at most one data array is handed to the CSV writer per collection,
\* and only when the cursor has ended and every check of the collection is
\* fulfilled; it holds the found records of all of them
C17_WriteAfterAll ==
  \A c \in Collections :
    /\ Len(csv[c]) <= 1
    /\ csv[c] # <<>> =>
         /\ cursor[c] = "end"
         /\ pos[c] = Len(source[c])
         /\ \A n \in ChecksOf(c) : promise[c][n].state = "fulfilled"
         /\ RowIds(csv[c][1]) = {n \in ChecksOf(c) : promise[c][n].found}

C17_Witness ==
  \E c \in Collections :
    /\ Len(csv[c]) = 1
    /\ Cardinality(ChecksOf(c)) >= 2
    /\ \E n \in ChecksOf(c) : ~promise[c][n].found

FullyRead(c) == cursor[c] = "end" /\ pos[c] = Len(source[c])

\* C18: the vocab query is started only when the activities cursor has been
\* read to its end without error; mongodb.close() is called at most once,
\* and only when both cursors have been read to their end
C18_SequentialThenClose ==
  /\ cursor.vocab # "idle" => FullyRead("activities")
  /\ closes <= 1
  /\ closes > 0 => \A c \in Collections : FullyRead(c)

C18_Witness ==
  /\ closes = 1
  /\ \A c \in Collections : pos[c] > 0

\* C19: an entry without identifier takes a sequence index (the counter
\* counts every entry read, and a later check waits for its own position)
\* but has no promise, causes no probe and is in no row
C19_NoIdentifierNoProbe ==
  \A c \in Collections :
    /\ i[c] = Len(Read(c))
    /\ \A k \in DOMAIN Read(c) :
         IF Read(c)[k] = Empty
         THEN /\ promise[c][k].state = "none"
              /\ Releases(<<c, k>>) = {}
              /\ \A w \in DOMAIN csv[c] : k \notin RowIds(csv[c][w])
         ELSE promise[c][k].due = promise[c][k].submitted + Delay(k)

C19_Witness ==
  \E c \in Collections : \E k, j \in DOMAIN Read(c) :
    /\ k < j
    /\ Read(c)[k] = Empty
    /\ Read(c)[j] # Empty
    /\ promise[c][j].probe = "present"
    /\ csv[c] # <<>>

====
